---- MODULE Spec2Model ----
(***************************************************************************)
(* Model of src/math/multiply.js: multiplication by repeated addition.     *)
(*                                                                         *)
(*   const multiply = (a, b, base = a) => {                                *)
(*     if (b <= 1) return a;                                               *)
(*     return multiply(add(a, base), subtract(b, 1), base);                *)
(*   };                                                                    *)
(*                                                                         *)
(* Every caller owns one call chain.  A chain is the sequence of           *)
(* invocations of multiply made by one outer call; one action is one       *)
(* invocation of the function body.  The parameters (a, b, base) of the    *)
(* pending invocation are the chain's state.  Numbers are modelled as      *)
(* mathematical integers (the values stay far below 2^53, where the        *)
(* JavaScript number type is exact); the engine's call-stack limit is not  *)
(* modelled.                                                               *)
(***************************************************************************)
EXTENDS Integers, Sequences, FiniteSets, TLC

\* Bounds of the explored inputs.
MaxA == 2
MaxB == 3
MaxNegB == 2
MaxBase == 1

\* The callers whose call chains may interleave.
Callers == {"c1", "c2"}

\* Argument lists of an outer call: multiply(a, b) or multiply(a, b, base).
Argvs ==
    { <<x, y>> : x \in (0 - MaxA)..MaxA, y \in (0 - MaxNegB)..MaxB }
    \cup { <<x, y, z>> : x \in (0 - MaxA)..MaxA, y \in (0 - MaxNegB)..MaxB,
                         z \in (0 - MaxBase)..MaxBase }

VARIABLES
    pc,      \* per caller: "idle" (no call made), "running", "done"
    args,    \* per caller: the argument list of the outer call
    a,       \* per caller: parameter a of the pending invocation (accumulator)
    b,       \* per caller: parameter b of the pending invocation (count)
    base,    \* per caller: parameter base of the pending invocation
    result,  \* per caller: the value returned by the call chain
    steps,   \* per caller: recursive calls made so far
    adds,    \* per caller: calls of add made so far
    subs     \* per caller: calls of subtract made so far

vars == <<pc, args, a, b, base, result, steps, adds, subs>>

\* add.js and subtract.js: the two arithmetic collaborators.
add(x, y) == x + y

subtract(x, y) == x - y

\* Default parameter `base = a`: used when the third argument is absent.
defaultBaseIgnoringArg(argv) == argv[1]

defaultBase(argv) == IF Len(argv) >= 3 THEN argv[3] ELSE argv[1]

\* The terminal test of line 5: `b <= 1`.
terminalStrict(n) == n < 1

terminal(n) == n <= 1

\* multiply as a function of its three parameters, run alone.
RECURSIVE multiply(_, _, _)
multiply(x, y, z) ==
    IF terminal(y) THEN x
    ELSE multiply(add(x, z), subtract(y, 1), z)

\* An outer call multiply(...argv) run alone.
multiplyCall(argv) == multiply(argv[1], argv[2], defaultBase(argv))

Init ==
    /\ pc = [c \in Callers |-> "idle"]
    /\ args = [c \in Callers |-> <<0, 0>>]
    /\ a = [c \in Callers |-> 0]
    /\ b = [c \in Callers |-> 0]
    /\ base = [c \in Callers |-> 0]
    /\ result = [c \in Callers |-> 0]
    /\ steps = [c \in Callers |-> 0]
    /\ adds = [c \in Callers |-> 0]
    /\ subs = [c \in Callers |-> 0]

\* A caller invokes multiply with an argument list; the parameters are bound.
Call(c) ==
    /\ pc[c] = "idle"
    /\ \E argv \in Argvs :
          /\ args' = [args EXCEPT ![c] = argv]
          /\ a' = [a EXCEPT ![c] = argv[1]]
          /\ b' = [b EXCEPT ![c] = argv[2]]
          /\ base' = [base EXCEPT ![c] = defaultBase(argv)]
    /\ pc' = [pc EXCEPT ![c] = "running"]
    /\ UNCHANGED <<result, steps, adds, subs>>

\* Line 5 with a changed return value: `if (b < 1) return 0; if (b <= 1) return a;`
ReturnZero(c) ==
    /\ pc[c] = "running"
    /\ terminal(b[c])
    /\ result' = [result EXCEPT ![c] = IF b[c] < 1 THEN 0 ELSE a[c]]
    /\ pc' = [pc EXCEPT ![c] = "done"]
    /\ UNCHANGED <<args, a, b, base, steps, adds, subs>>

\* Line 5: `if (b <= 1) return a;` -- every enclosing frame returns the value
\* of its callee unchanged, so the chain's result is this a.
Return(c) ==
    /\ pc[c] = "running"
    /\ terminal(b[c])
    /\ result' = [result EXCEPT ![c] = a[c]]
    /\ pc' = [pc EXCEPT ![c] = "done"]
    /\ UNCHANGED <<args, a, b, base, steps, adds, subs>>

\* Line 6 without the third argument: base defaults to the new accumulator.
RecurseDropBase(c) ==
    /\ pc[c] = "running"
    /\ ~terminal(b[c])
    /\ a' = [a EXCEPT ![c] = add(a[c], base[c])]
    /\ b' = [b EXCEPT ![c] = subtract(b[c], 1)]
    /\ base' = [base EXCEPT ![c] = add(a[c], base[c])]
    /\ steps' = [steps EXCEPT ![c] = @ + 1]
    /\ adds' = [adds EXCEPT ![c] = @ + 1]
    /\ subs' = [subs EXCEPT ![c] = @ + 1]
    /\ UNCHANGED <<pc, args, result>>

\* Line 6 adding the accumulator to itself: add(a, a).
RecurseDouble(c) ==
    /\ pc[c] = "running"
    /\ ~terminal(b[c])
    /\ a' = [a EXCEPT ![c] = add(a[c], a[c])]
    /\ b' = [b EXCEPT ![c] = subtract(b[c], 1)]
    /\ base' = [base EXCEPT ![c] = base[c]]
    /\ steps' = [steps EXCEPT ![c] = @ + 1]
    /\ adds' = [adds EXCEPT ![c] = @ + 1]
    /\ subs' = [subs EXCEPT ![c] = @ + 1]
    /\ UNCHANGED <<pc, args, result>>

\* Line 6 with the accumulator kept in one module-level variable that every
\* chain writes.
RecurseWritesShared(c) ==
    /\ pc[c] = "running"
    /\ ~terminal(b[c])
    /\ a' = [d \in Callers |-> add(a[c], base[c])]
    /\ b' = [b EXCEPT ![c] = subtract(b[c], 1)]
    /\ base' = [base EXCEPT ![c] = base[c]]
    /\ steps' = [steps EXCEPT ![c] = @ + 1]
    /\ adds' = [adds EXCEPT ![c] = @ + 1]
    /\ subs' = [subs EXCEPT ![c] = @ + 1]
    /\ UNCHANGED <<pc, args, result>>

\* Line 6 reading the accumulator of the chain that moved last (the largest
\* step count), as a module-level accumulator would be read.
RecurseReadsShared(c) ==
    /\ pc[c] = "running"
    /\ ~terminal(b[c])
    /\ LET d == CHOOSE e \in Callers : \A f \in Callers : steps[e] >= steps[f]
       IN  a' = [a EXCEPT ![c] = add(a[d], base[c])]
    /\ b' = [b EXCEPT ![c] = subtract(b[c], 1)]
    /\ base' = [base EXCEPT ![c] = base[c]]
    /\ steps' = [steps EXCEPT ![c] = @ + 1]
    /\ adds' = [adds EXCEPT ![c] = @ + 1]
    /\ subs' = [subs EXCEPT ![c] = @ + 1]
    /\ UNCHANGED <<pc, args, result>>

\* Line 6: `return multiply(add(a, base), subtract(b, 1), base);` -- one
\* call of add, one call of subtract, then the recursive invocation.
Recurse(c) ==
    /\ pc[c] = "running"
    /\ ~terminal(b[c])
    /\ a' = [a EXCEPT ![c] = add(a[c], base[c])]
    /\ b' = [b EXCEPT ![c] = subtract(b[c], 1)]
    /\ base' = [base EXCEPT ![c] = base[c]]
    /\ steps' = [steps EXCEPT ![c] = @ + 1]
    /\ adds' = [adds EXCEPT ![c] = @ + 1]
    /\ subs' = [subs EXCEPT ![c] = @ + 1]
    /\ UNCHANGED <<pc, args, result>>

Next ==
    \E c \in Callers :
        \/ Call(c)
        \/ Return(c)
        \/ Recurse(c)

Spec == Init /\ [][Next]_vars

\* The function body is synchronous: a pending invocation always runs.
FairSpec ==
    Spec /\ \A c \in Callers : WF_vars(Return(c)) /\ WF_vars(Recurse(c))

(***************************************************************************)
(* Properties.                                                             *)
(***************************************************************************)

\* The arguments of the outer call of caller c.
A0(c) == args[c][1]

B0(c) == args[c][2]

TwoArgs(c) == Len(args[c]) = 2

ThreeArgs(c) == Len(args[c]) = 3

\* The base of the first invocation: the third argument, else the first.
FirstBase(c) == IF ThreeArgs(c) THEN args[c][3] ELSE args[c][1]

\* The part of the state that belongs to the chain of caller c.
chain(c) == <<pc[c], args[c], a[c], b[c], base[c], result[c], steps[c], adds[c], subs[c]>>

\* C1: a two-argument call multiply(a, b) with a >= 0 and b >= 1 returns the
\* product a * b.
C1_Product ==
    \A c \in Callers :
        (pc[c] = "done" /\ TwoArgs(c) /\ A0(c) >= 0 /\ B0(c) >= 1)
            => result[c] = A0(c) * B0(c)

C1_Witness ==
    \E c \in Callers :
        /\ pc[c] = "done" /\ TwoArgs(c)
        /\ A0(c) = 2 /\ B0(c) = 3 /\ result[c] = 6

\* C2: a two-argument call multiply(a, b) with any integer a and any b >= 0,
\* b = 0 included, returns the product a * b.
C2_ProductFromZero ==
    \A c \in Callers :
        (pc[c] = "done" /\ TwoArgs(c) /\ B0(c) >= 0)
            => result[c] = A0(c) * B0(c)

\* C3: a call with count b <= 1 returns a unchanged and takes no recursive
\* step; multiply(x, 1) = x and multiply(x, 0) = x.
C3_TerminalReturnsA ==
    \A c \in Callers :
        (pc[c] = "done" /\ B0(c) <= 1)
            => (result[c] = A0(c) /\ steps[c] = 0 /\ adds[c] = 0 /\ subs[c] = 0)

C3_Witness ==
    \E c, d \in Callers :
        /\ pc[c] = "done" /\ B0(c) = 0 /\ A0(c) = 2 /\ result[c] = 2
        /\ pc[d] = "done" /\ B0(d) = 1 /\ A0(d) = 0 - 1 /\ result[d] = 0 - 1

\* C4 as stated: a call with a negative count b never reaches a returned
\* result.
C4_NegativeNeverReturns ==
    \A c \in Callers :
        (pc[c] # "idle" /\ B0(c) < 0) => pc[c] # "done"

\* C4 amended: the first invocation of a call with a negative count b
\* returns a at once: the only step its chain takes is the return of a,
\* with no recursive step.
C4_NegativeReturnsAtOnce ==
    [][\A c \in Callers :
          (pc[c] = "running" /\ B0(c) < 0 /\ chain(c)' # chain(c))
              => (pc'[c] = "done" /\ result'[c] = A0(c) /\ steps'[c] = 0)]_vars

C4_Witness ==
    \E c \in Callers :
        /\ pc[c] = "done" /\ B0(c) = 0 - 2 /\ A0(c) = 2
        /\ result[c] = 2 /\ steps[c] = 0

\* C5: a call with count b >= 1 eventually returns, after exactly b - 1
\* recursive steps, b - 1 calls of add and b - 1 calls of subtract.
C5_ReturnsAfterBMinus1Steps ==
    \A c \in Callers :
        (pc[c] = "running" /\ B0(c) >= 1)
            ~> (/\ pc[c] = "done"
                /\ steps[c] = B0(c) - 1
                /\ adds[c] = B0(c) - 1
                /\ subs[c] = B0(c) - 1)

C5_Witness ==
    \E c \in Callers :
        /\ pc[c] = "done" /\ B0(c) = 3
        /\ steps[c] = 2 /\ adds[c] = 2 /\ subs[c] = 2

\* C6 as stated: every recursive step takes (a, b, base) to
\* (a + base, b - 1, base), and base equals the a of the first invocation
\* during the whole chain.
C6_StepAndBaseIsFirstA ==
    [][\A c \in Callers :
          steps'[c] # steps[c]
              => (/\ a'[c] = a[c] + base[c]
                  /\ b'[c] = b[c] - 1
                  /\ base'[c] = base[c]
                  /\ base[c] = A0(c))]_vars

\* C6 amended: every recursive step takes (a, b, base) to
\* (a + base, b - 1, base), and base equals the base of the first invocation
\* during the whole chain: the third argument when one was passed, the a of
\* the first invocation otherwise.
C6_StepAndBaseIsFirstBase ==
    [][\A c \in Callers :
          steps'[c] # steps[c]
              => (/\ a'[c] = a[c] + base[c]
                  /\ b'[c] = b[c] - 1
                  /\ b'[c] < b[c]
                  /\ base'[c] = base[c]
                  /\ base[c] = FirstBase(c))]_vars

C6_Witness ==
    \E c, d \in Callers :
        /\ pc[c] = "running" /\ TwoArgs(c) /\ steps[c] = 2
        /\ A0(c) = 2 /\ a[c] = 6 /\ b[c] = 1 /\ base[c] = 2
        /\ pc[d] = "running" /\ ThreeArgs(d) /\ steps[d] = 1
        /\ A0(d) = 2 /\ base[d] = 1 /\ a[d] = 3

\* C7: with the steps of the chains interleaved in any order, every chain
\* returns the result of the same call run alone, and a step of one chain
\* leaves the state of every other chain as it was.
C7_ChainsIndependent ==
    [][/\ \A c \in Callers :
            pc'[c] = "done" => result'[c] = multiplyCall(args'[c])
       /\ \A c, d \in Callers :
            (c # d /\ chain(c)' # chain(c)) => chain(d)' = chain(d)]_vars

C7_Witness ==
    \E c, d \in Callers :
        /\ c # d
        /\ pc[c] = "done" /\ steps[c] = 2 /\ A0(c) = 2 /\ result[c] = 6
        /\ pc[d] = "running" /\ steps[d] = 1 /\ b[d] = 2 /\ a[d] = 0 - 2

\* C8: two chains started with the same arguments are in the same state
\* after the same number of steps, take the same number of steps and return
\* the same result.
C8_Deterministic ==
    \A c, d \in Callers :
        (pc[c] # "idle" /\ pc[d] # "idle" /\ args[c] = args[d])
            => (/\ steps[c] = steps[d]
                    => (a[c] = a[d] /\ b[c] = b[d] /\ base[c] = base[d])
                /\ (pc[c] = "done" /\ pc[d] = "done")
                    => (steps[c] = steps[d] /\ result[c] = result[d]))

C8_Witness ==
    \E c, d \in Callers :
        /\ c # d /\ args[c] = args[d]
        /\ pc[c] = "done" /\ pc[d] = "done"
        /\ steps[c] = 2 /\ steps[d] = 2
        /\ result[c] = 3 /\ result[d] = 3

\* C9 as stated: a three-argument call multiply(a, b, base) with b >= 1
\* returns a + base * (b - 1), which is the product a * b only when
\* base = a.
C9_ExplicitBaseOnlyWhenEqual ==
    \A c \in Callers :
        (pc[c] = "done" /\ ThreeArgs(c) /\ B0(c) >= 1)
            => (/\ result[c] = A0(c) + args[c][3] * (B0(c) - 1)
                /\ result[c] = A0(c) * B0(c) => args[c][3] = A0(c))

\* C9 amended: a three-argument call multiply(a, b, base) with b >= 1
\* returns a + base * (b - 1), which is the product a * b exactly when
\* base = a or b = 1.
C9_ExplicitBase ==
    \A c \in Callers :
        (pc[c] = "done" /\ ThreeArgs(c) /\ B0(c) >= 1)
            => (/\ result[c] = A0(c) + args[c][3] * (B0(c) - 1)
                /\ result[c] = A0(c) * B0(c)
                      <=> (args[c][3] = A0(c) \/ B0(c) = 1))

C9_Witness ==
    \E c \in Callers :
        /\ pc[c] = "done" /\ ThreeArgs(c)
        /\ A0(c) = 2 /\ B0(c) = 3 /\ args[c][3] = 1
        /\ result[c] = 4

\* C10: in every state of a chain started as multiply(a0, b0) with
\* b0 >= 1, a + base * (b - 1) = a0 * b0 and b is within 1..b0; the value
\* returned is a0 * b0.
C10_LoopInvariant ==
    \A c \in Callers :
        (pc[c] # "idle" /\ TwoArgs(c) /\ B0(c) >= 1)
            => (/\ a[c] + base[c] * (b[c] - 1) = A0(c) * B0(c)
                /\ b[c] \in 1..B0(c)
                /\ pc[c] = "done" => (b[c] = 1 /\ result[c] = a[c]))

C10_Witness ==
    \E c \in Callers :
        /\ pc[c] = "running" /\ TwoArgs(c)
        /\ A0(c) = 0 - 2 /\ B0(c) = 3
        /\ a[c] = 0 - 4 /\ b[c] = 2 /\ base[c] = 0 - 2

====
